---- MODULE Spec2Model ----
(***************************************************************************)
(* Model of cmd/iceberg/include/iceberg_metrics.h: the seven inline        *)
(* iceberg_metrics_* wrappers, the Go-exported entry points they forward   *)
(* to, and the caller sequence documented in the header's usage comment.   *)
(*                                                                         *)
(* The header only declares the entry points (lines 17-23); their bodies   *)
(* live in the Go runtime.  They are modelled here from the header's       *)
(* comments and the design notes: a handle table of map[string]string, a   *)
(* process-wide provider slot and a heap of C error strings.  Whatever     *)
(* those sources leave open (an invalid handle, a NULL string, a pointer   *)
(* that is not a live error string) is a choice between a benign outcome   *)
(* and a fault, drawn by the parameter c of every entry point.  What an    *)
(* install does to a provider already in the slot is left open as well:    *)
(* it is stopped, or it is left running beside the new one.                *)
(***************************************************************************)
EXTENDS Integers, Sequences, FiniteSets

\* Bounds of the model.
MaxHandles == 2
MaxErrs == 1
MaxSets == 3

\* The null pointer (char *) and the null C string argument.
NULL == 0
NULLSTR == "(null)"

\* The three properties the usage comment sets, in its order.
UsagePairs ==
    << <<"service.name", "iceberg-worker">>,
       <<"service.version", "1.2.3">>,
       <<"prometheus.handler_path", "/metrics">> >>

\* Keys and values the caller of any call passes (the first two pairs).
Keys == {"service.name", "service.version"}
Values == {"iceberg-worker", "1.2.3"}
CKeys == Keys \cup {NULLSTR}
CValues == Values \cup {NULLSTR}
HandleArgs == 1..MaxHandles
PtrArgs == 0..MaxErrs
Choices == {"ok", "bad"}
InstallChoices == Choices \cup {"keep"}

VARIABLES
    go,     \* the Go runtime: [maps, active, orphans, errs, fault]
    ref,    \* the same runtime driven by direct calls of the entry points
    last,   \* the last wrapper call: [fn, ret, outcome]
    pc,     \* position in the documented usage sequence
    props,  \* the usage sequence's map handle
    err,    \* the usage sequence's error pointer
    hist,   \* the wrapper calls the usage sequence has made in this run
    owned   \* the handles the create/delete caller holds

vars == <<go, ref, last, pc, props, err, hist, owned>>

----------------------------------------------------------------------------
\* The Go runtime behind the entry points.

EmptyMap == [x \in {} |-> ""]

MapPut(m, k, v) == [x \in (DOMAIN m) \cup {k} |-> IF x = k THEN v ELSE m[x]]

\* maps: the handle table; active: providers in the slot; orphans: a provider
\* that an install replaced is still running; errs: C strings handed out.
InitWorld ==
    [maps |-> <<>>, active |-> 0, orphans |-> FALSE, errs |-> <<>>, fault |-> FALSE]

\* The providers running: none, one, or more than one.
Running(w) == IF w.orphans THEN w.active + 1 ELSE w.active

Live(w, h) == h \in 1..Len(w.maps) /\ w.maps[h].st = "live"

LiveErr(w, p) == p \in 1..Len(w.errs) /\ w.errs[p] = "live"

Result(w, ret, outcome, fn, args) ==
    [w |-> w, ret |-> ret, outcome |-> outcome,
     calls |-> <<[fn |-> fn, args |-> args]>>]

\* An input the sources say nothing about: ignored, or the process faults.
Unspecified(w, c, fn, args) ==
    IF c = "bad"
    THEN Result([w EXCEPT !.fault = TRUE], NULL, "fault", fn, args)
    ELSE Result(w, NULL, "ignored", fn, args)

\* A failure reported the documented way: a fresh heap-allocated C string.
ErrorString(w, outcome, fn, args) ==
    Result([w EXCEPT !.errs = Append(@, "live")], Len(w.errs) + 1, outcome, fn, args)

new_property_map(w, c) ==
    Result([w EXCEPT !.maps = Append(@, [st |-> "live", m |-> EmptyMap])],
           Len(w.maps) + 1, "ok", "new_property_map", <<>>)

delete_map(w, handle, c) ==
    IF Live(w, handle)
    THEN Result([w EXCEPT !.maps[handle] = [st |-> "dead", m |-> EmptyMap]],
                NULL, "ok", "delete_map", <<handle>>)
    ELSE Unspecified(w, c, "delete_map", <<handle>>)

add_map_entry(w, handle, key, value, c) ==
    IF Live(w, handle) /\ key # NULLSTR /\ value # NULLSTR
    THEN Result([w EXCEPT !.maps[handle].m = MapPut(@, key, value)],
                NULL, "ok", "add_map_entry", <<handle, key, value>>)
    ELSE Unspecified(w, c, "add_map_entry", <<handle, key, value>>)

install_prometheus_metrics_provider(w, handle, c) ==
    IF Live(w, handle)
    THEN IF c = "bad"
         THEN ErrorString(w, "failed", "install_prometheus_metrics_provider", <<handle>>)
         ELSE Result([w EXCEPT !.active = 1,
                               !.orphans = @ \/ (c = "keep" /\ w.active > 0)],
                     NULL, "installed",
                     "install_prometheus_metrics_provider", <<handle>>)
    ELSE IF c = "bad"
         THEN Unspecified(w, c, "install_prometheus_metrics_provider", <<handle>>)
         ELSE ErrorString(w, "invalid", "install_prometheus_metrics_provider", <<handle>>)

shutdown_metrics_provider(w, c) ==
    IF c = "ok"
    THEN Result([w EXCEPT !.active = 0], NULL,
                IF w.active > 0 THEN "stopped" ELSE "nothing",
                "shutdown_metrics_provider", <<>>)
    ELSE ErrorString(w, "failed", "shutdown_metrics_provider", <<>>)

disable_metrics(w, c) ==
    Result([w EXCEPT !.active = 0], NULL, "disabled", "disable_metrics", <<>>)

free_c_string(w, str, c) ==
    IF LiveErr(w, str)
    THEN Result([w EXCEPT !.errs[str] = "freed"], NULL, "ok", "free_c_string", <<str>>)
    ELSE Unspecified(w, c, "free_c_string", <<str>>)

----------------------------------------------------------------------------
\* Slips a forwarding wrapper can make, used to show that each property
\* below depends on the wrapper it is about.

\* install forwards, then drops the error and reports success.
Mut_install_drops_error(w, map, c) ==
    [install_prometheus_metrics_provider(w, map, c) EXCEPT !.ret = NULL]

\* install takes ownership of the map: it destroys it after installing.
Mut_install_deletes_map(w, map, c) ==
    LET r == install_prometheus_metrics_provider(w, map, c) IN
    IF r.w.fault THEN r
    ELSE [r EXCEPT !.w = delete_map(r.w, map, "ok").w,
                   !.calls = r.calls \o delete_map(r.w, map, "ok").calls]

\* install fills in a default handler path before installing.
Mut_install_writes_default(w, map, c) ==
    LET a == add_map_entry(w, map, "prometheus.handler_path", "/metrics", "ok")
        r == install_prometheus_metrics_provider(a.w, map, c)
    IN [r EXCEPT !.calls = a.calls \o r.calls]

\* free_error forgets to forward.
Mut_free_error_noop(w, e, c) ==
    [w |-> w, ret |-> NULL, outcome |-> "ok", calls |-> <<>>]

\* delete forgets to forward.
Mut_delete_noop(w, map, c) ==
    [w |-> w, ret |-> NULL, outcome |-> "ok", calls |-> <<>>]

\* delete forwards to the wrong entry point, free_c_string((char *)map).
Mut_delete_calls_free(w, map, c) == free_c_string(w, map, c)

\* set_property rejects a NULL key or value instead of forwarding it.
Mut_set_property_validates(w, map, key, value, c) ==
    IF key = NULLSTR \/ value = NULLSTR
    THEN [w |-> w, ret |-> NULL, outcome |-> "ignored", calls |-> <<>>]
    ELSE add_map_entry(w, map, key, value, c)

\* set_property forwards key and value in the wrong order.
Mut_set_property_swapped(w, map, key, value, c) == add_map_entry(w, map, value, key, c)

----------------------------------------------------------------------------
\* The inline wrappers of the header.

iceberg_metrics_new_property_map(w, c) == new_property_map(w, c)

iceberg_metrics_delete_property_map(w, map, c) == delete_map(w, map, c)

iceberg_metrics_set_property(w, map, key, value, c) == add_map_entry(w, map, key, value, c)

iceberg_metrics_install_prometheus_provider(w, map, c) ==
    install_prometheus_metrics_provider(w, map, c)

iceberg_metrics_shutdown_provider(w, c) == shutdown_metrics_provider(w, c)

iceberg_metrics_disable(w, c) == disable_metrics(w, c)

iceberg_metrics_free_error(w, e, c) == free_c_string(w, e, c)

----------------------------------------------------------------------------
\* A caller that makes any call, with any argument, in any order.

Init ==
    /\ go = InitWorld
    /\ ref = [w |-> InitWorld, ret |-> NULL]
    /\ last = [fn |-> "none", ret |-> NULL, outcome |-> "none"]
    /\ pc = "new"
    /\ props = NULL
    /\ err = NULL
    /\ hist = <<>>
    /\ owned = {}

InBounds(w) == Len(w.maps) <= MaxHandles /\ Len(w.errs) <= MaxErrs

\* One call: r through the wrapper, d directly at the entry point.
Step(fn, r, d) ==
    /\ ~go.fault
    /\ InBounds(r.w)
    /\ go' = r.w
    /\ ref' = [w |-> d.w, ret |-> d.ret]
    /\ last' = [fn |-> fn, ret |-> r.ret, outcome |-> r.outcome]

CallNew ==
    \E c \in Choices :
        /\ Step("new", iceberg_metrics_new_property_map(go, c),
                new_property_map(ref.w, c))
        /\ UNCHANGED <<pc, props, err, hist, owned>>

CallDelete ==
    \E h \in HandleArgs, c \in Choices :
        /\ Step("delete", iceberg_metrics_delete_property_map(go, h, c),
                delete_map(ref.w, h, c))
        /\ UNCHANGED <<pc, props, err, hist, owned>>

CallSet ==
    \E h \in HandleArgs, k \in CKeys, v \in CValues, c \in Choices :
        /\ Step("set", iceberg_metrics_set_property(go, h, k, v, c),
                add_map_entry(ref.w, h, k, v, c))
        /\ UNCHANGED <<pc, props, err, hist, owned>>

CallInstall ==
    \E h \in HandleArgs, c \in InstallChoices :
        /\ Step("install", iceberg_metrics_install_prometheus_provider(go, h, c),
                install_prometheus_metrics_provider(ref.w, h, c))
        /\ UNCHANGED <<pc, props, err, hist, owned>>

CallShutdown ==
    \E c \in Choices :
        /\ Step("shutdown", iceberg_metrics_shutdown_provider(go, c),
                shutdown_metrics_provider(ref.w, c))
        /\ UNCHANGED <<pc, props, err, hist, owned>>

CallDisable ==
    \E c \in Choices :
        /\ Step("disable", iceberg_metrics_disable(go, c),
                disable_metrics(ref.w, c))
        /\ UNCHANGED <<pc, props, err, hist, owned>>

CallFree ==
    \E p \in PtrArgs, c \in Choices :
        /\ Step("free", iceberg_metrics_free_error(go, p, c),
                free_c_string(ref.w, p, c))
        /\ UNCHANGED <<pc, props, err, hist, owned>>

Next ==
    \/ CallNew
    \/ CallDelete
    \/ CallSet
    \/ CallInstall
    \/ CallShutdown
    \/ CallDisable
    \/ CallFree

Spec == Init /\ [][Next]_vars

----------------------------------------------------------------------------
\* The caller of the header's usage comment, run any number of times.  The
\* comment sets its three properties once each, in order; here any of the
\* three, in any order, up to MaxSets times.

\* fprintf("%s", err): reading a string that is no longer allocated is
\* undefined, here garbage or a fault.
ReadString(w, p, c) ==
    IF LiveErr(w, p) \/ c = "ok" THEN w ELSE [w EXCEPT !.fault = TRUE]

UsageNew ==
    /\ owned' = owned
    /\ pc = "new"
    /\ \E c \in Choices :
        LET r == iceberg_metrics_new_property_map(go, c) IN
        /\ Step("new", r, new_property_map(ref.w, c))
        /\ props' = r.ret
    /\ pc' = "set"
    /\ hist' = Append(hist, "new")
    /\ err' = err

UsageSet ==
    /\ owned' = owned
    /\ pc = "set"
    /\ Len(hist) <= MaxSets
    /\ \E i \in 1..Len(UsagePairs), c \in Choices :
        Step("set", iceberg_metrics_set_property(go, props, UsagePairs[i][1], UsagePairs[i][2], c),
             add_map_entry(ref.w, props, UsagePairs[i][1], UsagePairs[i][2], c))
    /\ hist' = Append(hist, "set")
    /\ UNCHANGED <<pc, props, err>>

UsageInstall ==
    /\ owned' = owned
    /\ pc = "set"
    /\ \E c \in InstallChoices :
        LET r == iceberg_metrics_install_prometheus_provider(go, props, c) IN
        /\ Step("install", r, install_prometheus_metrics_provider(ref.w, props, c))
        /\ err' = r.ret
    /\ pc' = "delete"
    /\ hist' = Append(hist, "install")
    /\ props' = props

UsageDelete ==
    /\ owned' = owned
    /\ pc = "delete"
    /\ \E c \in Choices :
        Step("delete", iceberg_metrics_delete_property_map(go, props, c),
             delete_map(ref.w, props, c))
    /\ pc' = "check"
    /\ hist' = Append(hist, "delete")
    /\ UNCHANGED <<props, err>>

\* The error branch cleans up the map a second time.
Mut_UsageCheck_deletes_again ==
    /\ owned' = owned
    /\ pc = "check"
    /\ IF err # NULL
       THEN /\ \E c \in Choices :
                Step("delete", iceberg_metrics_delete_property_map(go, props, c),
                     delete_map(ref.w, props, c))
            /\ hist' = Append(hist, "delete")
            /\ pc' = "print"
       ELSE /\ ~go.fault
            /\ pc' = "done"
            /\ UNCHANGED <<go, ref, last, hist>>
    /\ UNCHANGED <<props, err>>

UsageCheck ==
    /\ owned' = owned
    /\ pc = "check"
    /\ ~go.fault
    /\ pc' = IF err # NULL THEN "print" ELSE "done"
    /\ UNCHANGED <<go, ref, last, props, err, hist>>

UsagePrint ==
    /\ owned' = owned
    /\ pc = "print"
    /\ ~go.fault
    /\ \E c \in Choices :
        /\ go' = ReadString(go, err, c)
        /\ ref' = [ref EXCEPT !.w = ReadString(ref.w, err, c)]
    /\ pc' = "free"
    /\ hist' = Append(hist, "print")
    /\ UNCHANGED <<last, props, err>>

UsageFree ==
    /\ owned' = owned
    /\ pc = "free"
    /\ \E c \in Choices :
        Step("free", iceberg_metrics_free_error(go, err, c), free_c_string(ref.w, err, c))
    /\ pc' = "done"
    /\ hist' = Append(hist, "free")
    /\ UNCHANGED <<props, err>>

UsageAgain ==
    /\ owned' = owned
    /\ pc = "done"
    /\ ~go.fault
    /\ Len(go.maps) < MaxHandles
    /\ pc' = "new"
    /\ props' = NULL
    /\ err' = NULL
    /\ hist' = <<>>
    /\ UNCHANGED <<go, ref, last>>

UsageNext ==
    \/ UsageNew
    \/ UsageSet
    \/ UsageInstall
    \/ UsageDelete
    \/ UsageCheck
    \/ UsagePrint
    \/ UsageFree
    \/ UsageAgain

UsageSpec == Init /\ [][UsageNext]_vars

----------------------------------------------------------------------------
\* A caller that only creates maps, sets properties on the maps it holds and
\* deletes each map it holds once.

LcNew ==
    /\ \E c \in Choices :
        LET r == iceberg_metrics_new_property_map(go, c) IN
        /\ Step("new", r, new_property_map(ref.w, c))
        /\ owned' = owned \cup {r.ret}
    /\ UNCHANGED <<pc, props, err, hist>>

LcSet ==
    /\ \E h \in owned, k \in Keys, v \in Values, c \in Choices :
        Step("set", iceberg_metrics_set_property(go, h, k, v, c),
             add_map_entry(ref.w, h, k, v, c))
    /\ UNCHANGED <<pc, props, err, hist, owned>>

LcDelete ==
    /\ \E h \in owned, c \in Choices :
        /\ Step("delete", iceberg_metrics_delete_property_map(go, h, c),
                delete_map(ref.w, h, c))
        /\ owned' = owned \ {h}
    /\ UNCHANGED <<pc, props, err, hist>>

LifecycleNext ==
    \/ LcNew
    \/ LcSet
    \/ LcDelete

LifecycleSpec == Init /\ [][LifecycleNext]_vars

----------------------------------------------------------------------------
\* Properties.

Count(seq, x) == Cardinality({i \in 1..Len(seq) : seq[i] = x})

AfterDelete == pc \in {"check", "print", "free", "done"}

Dead == [st |-> "dead", m |-> EmptyMap]

\* C1: install has two outcomes.  Whenever it returns, the return value is
\* NULL exactly when the provider was installed, and otherwise it is a live
\* error string the caller owns; on a live handle it always returns; and a
\* failure leaves the maps and the provider slot as they were.
C1_InstallNullIffSuccess ==
    /\ last.fn = "install" /\ last.outcome # "fault" =>
        /\ last.ret = NULL <=> last.outcome = "installed"
        /\ last.ret # NULL => LiveErr(go, last.ret)
        /\ last.ret = NULL => go.active = 1
    /\ ~go.fault =>
        \A h \in HandleArgs, c \in InstallChoices :
            LET r == iceberg_metrics_install_prometheus_provider(go, h, c) IN
            /\ Live(go, h) => ~r.w.fault /\ r.outcome \in {"installed", "failed"}
            /\ r.ret # NULL =>
                /\ r.w.active = go.active
                /\ r.w.orphans = go.orphans
                /\ r.w.maps = go.maps

C1_Witness ==
    /\ last.fn = "install"
    /\ last.outcome = "failed"
    /\ last.ret # NULL
    /\ LiveErr(go, last.ret)

\* C2: install does not take ownership of the map.  Every map that is live
\* when install is called is live when it returns, with NULL or with an
\* error, and the caller can then delete it without a fault.
C2_InstallKeepsMapLive ==
    [][last'.fn = "install" /\ last'.outcome # "fault" =>
        \A h \in HandleArgs : Live(go, h) =>
            /\ Live(go', h)
            /\ \A c \in Choices :
                LET d == iceberg_metrics_delete_property_map(go', h, c) IN
                ~d.w.fault /\ ~Live(d.w, h)]_vars

C2_Witness ==
    /\ last.fn = "install"
    /\ last.outcome \in {"installed", "failed"}
    /\ Len(go.maps) = 1
    /\ Live(go, 1)

\* C3: install only reads the map.  The entries of every map are the same
\* after an install call as before it, on success and on failure.
C3_InstallReadsOnly ==
    [][last'.fn = "install" => go'.maps = go.maps]_vars

C3_Witness ==
    /\ last.fn = "install"
    /\ last.outcome = "installed"
    /\ Len(go.maps) = 1
    /\ Live(go, 1)
    /\ DOMAIN go.maps[1].m # {}

\* C4: error strings are valid and freed exactly once.  In the documented
\* usage no fault occurs; a non-NULL pointer returned by install, or that
\* shutdown would return, is a live string that free_error releases without
\* a fault; free_error is called only for a non-NULL error; and when the
\* sequence is done the error was freed once and no string is left allocated.
C4_ErrorFreedOnce ==
    /\ ~go.fault
    /\ pc \in {"delete", "check", "print", "free"} /\ err # NULL =>
        /\ LiveErr(go, err)
        /\ \A c \in Choices :
            LET r == iceberg_metrics_free_error(go, err, c) IN
            ~r.w.fault /\ r.w.errs[err] = "freed"
    /\ \A c \in Choices :
        LET s == iceberg_metrics_shutdown_provider(go, c) IN
        s.ret # NULL =>
            /\ LiveErr(s.w, s.ret)
            /\ \A c2 \in Choices :
                LET r == iceberg_metrics_free_error(s.w, s.ret, c2) IN
                ~r.w.fault /\ r.w.errs[s.ret] = "freed"
    /\ Count(hist, "free") > 0 => err # NULL
    /\ pc = "done" =>
        /\ Count(hist, "free") = IF err # NULL THEN 1 ELSE 0
        /\ \A p \in 1..Len(go.errs) : go.errs[p] = "freed"

C4_Witness ==
    /\ pc = "done"
    /\ err # NULL
    /\ go.errs[err] = "freed"
    /\ Count(hist, "free") = 1

\* C5: repeated create/delete does not fault.  A caller that creates maps,
\* sets properties on maps it holds and deletes each once never reaches a
\* fault; a handle is live exactly from its creation to its deletion; and a
\* deleted map holds nothing.
C5_CreateDeleteNoFault ==
    /\ ~go.fault
    /\ owned \subseteq 1..Len(go.maps)
    /\ \A h \in 1..Len(go.maps) :
        /\ h \in owned <=> Live(go, h)
        /\ h \notin owned => go.maps[h] = Dead

C5_Witness ==
    /\ Len(go.maps) = 2
    /\ go.maps[1] = Dead
    /\ go.maps[2] = Dead
    /\ last.fn = "delete"

\* C7: the documented usage deletes the map exactly once, on both paths,
\* after install has returned, and applies nothing to the handle afterwards.
C7_UsageDeletesOnce ==
    /\ Count(hist, "delete") = IF AfterDelete THEN 1 ELSE 0
    /\ pc \in {"set", "delete"} => Live(go, props)
    /\ AfterDelete =>
        /\ ~Live(go, props)
        /\ Count(hist, "install") = 1
        /\ \E i, j \in 1..Len(hist) :
            /\ i < j
            /\ hist[i] = "install"
            /\ hist[j] = "delete"
            /\ \A n \in 1..Len(hist) : n > j => hist[n] \in {"print", "free"}

C7_Witness ==
    /\ pc = "done"
    /\ err # NULL
    /\ Count(hist, "set") = Len(UsagePairs)
    /\ Count(hist, "delete") = 1
    /\ go.maps[props] = Dead

\* C8: the wrappers are pass-throughs.  In every reachable state each
\* wrapper, on every argument (a NULL string and an invalid handle too),
\* makes exactly the one call of its entry point with the same arguments and
\* returns its result; and the runtime driven through the wrappers equals
\* the runtime driven by the same direct calls.
C8_WrappersPassThrough ==
    /\ go = ref.w
    /\ last.ret = ref.ret
    /\ \A c \in Choices :
        /\ iceberg_metrics_new_property_map(go, c) = new_property_map(go, c)
        /\ iceberg_metrics_shutdown_provider(go, c) = shutdown_metrics_provider(go, c)
        /\ iceberg_metrics_disable(go, c) = disable_metrics(go, c)
        /\ \A p \in PtrArgs :
            iceberg_metrics_free_error(go, p, c) = free_c_string(go, p, c)
        /\ \A h \in HandleArgs :
            /\ iceberg_metrics_delete_property_map(go, h, c) = delete_map(go, h, c)
            /\ \A ci \in InstallChoices :
                iceberg_metrics_install_prometheus_provider(go, h, ci)
                  = install_prometheus_metrics_provider(go, h, ci)
            /\ \A k \in CKeys, v \in CValues :
                iceberg_metrics_set_property(go, h, k, v, c) = add_map_entry(go, h, k, v, c)

C8_Witness ==
    /\ last.fn = "set"
    /\ last.outcome = "ignored"
    /\ go = ref.w
    /\ \E h \in HandleArgs : Live(go, h)

\* C9: the map is a mapping and insertion order is irrelevant.  On a live
\* map set_property(h, k, v) leaves k bound to v, adds no other key and
\* keeps every other entry and every other map; and two insertions under
\* distinct keys give the same maps in either order.
C9_SetPropertyIsMapping ==
    ~go.fault =>
    \A h \in HandleArgs : Live(go, h) =>
        \A k \in Keys, v \in Values, c \in Choices :
            LET r == iceberg_metrics_set_property(go, h, k, v, c)
                m0 == go.maps[h].m
                m1 == r.w.maps[h].m
            IN
            /\ ~r.w.fault
            /\ DOMAIN m1 = (DOMAIN m0) \cup {k}
            /\ m1[k] = v
            /\ \A x \in (DOMAIN m0) \ {k} : m1[x] = m0[x]
            /\ \A g \in 1..Len(go.maps) : g # h => r.w.maps[g] = go.maps[g]
            /\ \A k2 \in Keys \ {k}, v2 \in Values :
                iceberg_metrics_set_property(r.w, h, k2, v2, c).w
                  = iceberg_metrics_set_property(
                        iceberg_metrics_set_property(go, h, k2, v2, c).w, h, k, v, c).w

C9_Witness ==
    /\ last.fn = "set"
    /\ last.outcome = "ok"
    /\ \E h \in HandleArgs : Live(go, h) /\ DOMAIN go.maps[h].m = Keys

\* C10: an error string outlives the map it was reported for.  In the
\* documented usage the error returned by install is still allocated after
\* the map was deleted, until it is freed; and deleting a map never changes
\* any error string.
C10_ErrorOutlivesMap ==
    /\ pc \in {"check", "print", "free"} /\ err # NULL =>
        LiveErr(go, err) /\ ~Live(go, props)
    /\ ~go.fault =>
        \A h \in HandleArgs, c \in Choices :
            iceberg_metrics_delete_property_map(go, h, c).w.errs = go.errs

C10_Witness ==
    /\ pc = "print"
    /\ err # NULL
    /\ LiveErr(go, err)
    /\ go.maps[props] = Dead

====
